---- MODULE Spec2Model ----
(***************************************************************************)
(* Model of the INCAR parser of py4vasp (src/py4vasp/_control/incar.py).   *)
(* A text is a sequence of characters; every character is a one-letter     *)
(* string.  Each regular expression of the module is an operator that      *)
(* computes what re.match / re.split / re.sub compute for it, including    *)
(* the order in which the backtracking matcher tries the alternatives.     *)
(***************************************************************************)
EXTENDS Integers, Sequences, FiniteSets, TLC

\* ------------------------------------------------------------ characters

BS == "\\"
QUOTE == "\""
NL == "\n"

\* \s, restricted to the characters the model's texts use
Whitespace == {" ", NL}

\* \w, restricted to the characters the model's texts use
WordChars == {"a", "b", "c", "g", "t", "x", "A", "B", "C", "G", "T", "X", "1", "2"}

\* [\w/] of _name
NameChars == WordChars \cup {"/"}

\* the character class of _ESCAPED
EscapableChars == {"=", ";", "#", "!", "{", "}", QUOTE, BS}

\* the delimiters the patterns wrap in _non_escaped
Reserved == {"#", "!", ";", "=", "{", "}", QUOTE}

\* str.upper on one character
UpperChar(c) ==
  CASE c = "a" -> "A"
    [] c = "b" -> "B"
    [] c = "c" -> "C"
    [] c = "g" -> "G"
    [] c = "t" -> "T"
    [] c = "x" -> "X"
    [] OTHER -> c

\* str.upper
Upper(s) == [i \in 1..Len(s) |-> UpperChar(s[i])]

\* str.lstrip("/")
RECURSIVE LStripSlash(_)
LStripSlash(s) ==
  IF s /= <<>> /\ Head(s) = "/" THEN LStripSlash(Tail(s)) ELSE s

\* str.count("/")
CountSlash(s) == Cardinality({i \in 1..Len(s) : s[i] = "/"})

\* str.rpartition("/")[0]: the text before the last "/", empty when there
\* is no "/"
RPartitionHead(s) ==
  LET P == {i \in 1..Len(s) : s[i] = "/"}
  IN IF P = {} THEN <<>>
     ELSE LET p == CHOOSE i \in P : \A j \in P : j <= i
          IN SubSeq(s, 1, p - 1)

\* "<sep>".join(parts)
RECURSIVE Join(_, _)
Join(parts, sep) ==
  IF parts = <<>> THEN <<>>
  ELSE IF Len(parts) = 1 THEN parts[1]
  ELSE parts[1] \o sep \o Join(Tail(parts), sep)

\* --------------------------------------------------- pieces of patterns

\* NonEscaped without its lookbehinds: every occurrence is a delimiter
NonEscapedAlways(s, i, chars) ==
  /\ i >= 1 /\ i <= Len(s)
  /\ s[i] \in chars

\* _non_escaped(char) tried at position i of s, char being any member of
\* chars: (?<!\\)char | (?<=\\\\)char
NonEscaped(s, i, chars) ==
  /\ i >= 1 /\ i <= Len(s)
  /\ s[i] \in chars
  /\ \/ i = 1
     \/ s[i - 1] /= BS
     \/ (i >= 3 /\ s[i - 1] = BS /\ s[i - 2] = BS)

\* _whitespace = \s* (greedy) from position i: the first position it does
\* not consume
RECURSIVE SkipWs(_, _)
SkipWs(s, i) ==
  IF i <= Len(s) /\ s[i] \in Whitespace THEN SkipWs(s, i + 1) ELSE i

\* _name = [\w/]+ (greedy) from position i: the first position it does not
\* consume (i itself when no name starts there)
RECURSIVE NameEnd(_, _)
NameEnd(s, i) ==
  IF i <= Len(s) /\ s[i] \in NameChars THEN NameEnd(s, i + 1) ELSE i

\* \s* followed by _value = (?P<inner>.*\S), tried from position i: the
\* captured text, <<>> when there is none.  "." stops at a newline.
ValueAt(s, i) ==
  LET j == SkipWs(s, i)
  IN IF j > Len(s) THEN <<>>
     ELSE LET stops == {n \in j..Len(s) : s[n] = NL}
              lim == IF stops = {} THEN Len(s)
                     ELSE (CHOOSE n \in stops : \A m \in stops : n <= m) - 1
              E == {e \in j..lim : s[e] \notin Whitespace}
              last == CHOOSE e \in E : \A f \in E : f <= e
          IN SubSeq(s, j, last)

\* _non_quote = (?P<inner>(\\\"|[^"])*) with nothing after it, from
\* position i: the first position the greedy loop does not consume
RECURSIVE NonQuoteEnd(_, _)
NonQuoteEnd(s, i) ==
  IF i > Len(s) THEN i
  ELSE IF s[i] = BS /\ i + 1 <= Len(s) /\ s[i + 1] = QUOTE
       THEN NonQuoteEnd(s, i + 2)
  ELSE IF s[i] /= QUOTE THEN NonQuoteEnd(s, i + 1)
  ELSE i

\* _non_quote followed by _non_escaped('"'): the position of the closing
\* quote the backtracking matcher settles on, 0 when it finds none.  At each
\* position the loop tries \" first, then [^"], then leaves the loop.
RECURSIVE EndQuote(_, _)
EndQuote(s, i) ==
  LET viaEscaped == IF i + 1 <= Len(s) /\ s[i] = BS /\ s[i + 1] = QUOTE
                    THEN EndQuote(s, i + 2) ELSE 0
      viaPlain == IF i <= Len(s) /\ s[i] /= QUOTE
                  THEN EndQuote(s, i + 1) ELSE 0
  IN IF viaEscaped /= 0 THEN viaEscaped
     ELSE IF viaPlain /= 0 THEN viaPlain
     ELSE IF NonEscaped(s, i, {QUOTE}) THEN i
     ELSE 0

\* ------------------------------------------------------------- patterns

\* _COMMENT.split(line, maxsplit=1)[0]: the text before the first active
\* "#" or "!"
CommentSplit(line) ==
  LET P == {i \in 1..Len(line) : NonEscaped(line, i, {"#", "!"})}
  IN IF P = {} THEN line
     ELSE SubSeq(line, 1, (CHOOSE i \in P : \A j \in P : i <= j) - 1)

\* _INLINE.split(text): the pieces between the active ";".  The pattern
\* has a capturing group, so re.split returns every separator too.
RECURSIVE InlineSplitFrom(_, _, _)
InlineSplitFrom(s, start, i) ==
  IF i > Len(s) THEN <<SubSeq(s, start, Len(s))>>
  ELSE IF NonEscaped(s, i, {";"})
       THEN <<SubSeq(s, start, i - 1), <<";">> >> \o InlineSplitFrom(s, i + 1, i + 1)
  ELSE InlineSplitFrom(s, start, i + 1)

InlineSplit(s) == InlineSplitFrom(s, 1, 1)

\* _NEWLINES.split(text): the text is cut at every newline that no
\* backslash stands right before, (?<!\\)\n
RECURSIVE NewlinesSplitFrom(_, _, _)
NewlinesSplitFrom(s, start, i) ==
  IF i > Len(s) THEN <<SubSeq(s, start, Len(s))>>
  ELSE IF s[i] = NL /\ (i = 1 \/ s[i - 1] /= BS)
       THEN <<SubSeq(s, start, i - 1)>> \o NewlinesSplitFrom(s, i + 1, i + 1)
  ELSE NewlinesSplitFrom(s, start, i + 1)

NewlinesSplit(text) == NewlinesSplitFrom(text, 1, 1)

\* _ESCAPED_NEWLINE.sub(" ", line): every \s*\\\n\s* becomes one space
RECURSIVE EscapedNewlineSub(_, _)
EscapedNewlineSub(s, i) ==
  IF i > Len(s) THEN <<>>
  ELSE LET j == SkipWs(s, i)
       IN IF j + 1 <= Len(s) /\ s[j] = BS /\ s[j + 1] = NL
          THEN <<" ">> \o EscapedNewlineSub(s, SkipWs(s, j + 2))
          ELSE <<s[i]>> \o EscapedNewlineSub(s, i + 1)

\* _ESCAPED.sub(r"\g<char>", text), scanning from position i
RECURSIVE EscapedSub(_, _)
EscapedSub(s, i) ==
  IF i > Len(s) THEN <<>>
  ELSE IF s[i] = BS /\ i + 1 <= Len(s) /\ s[i + 1] \in EscapableChars
       THEN <<s[i + 1]>> \o EscapedSub(s, i + 2)
  ELSE <<s[i]>> \o EscapedSub(s, i + 1)

NoMatch == [matched |-> FALSE, name |-> <<>>, inner |-> <<>>]

\* \s* _name \s* _non_escaped(sign): the position after the sign, 0 when
\* the text does not start that way; and the name
HeadOf(s, sign) ==
  LET i0 == SkipWs(s, 1)
      n1 == NameEnd(s, i0)
      j == SkipWs(s, n1)
  IN IF n1 > i0 /\ NonEscaped(s, j, {sign})
     THEN [after |-> j + 1, name |-> SubSeq(s, i0, n1 - 1)]
     ELSE [after |-> 0, name |-> <<>>]

\* _ASSIGNMENT.match(definition)
ASSIGNMENT(d) ==
  LET h == HeadOf(d, "=")
  IN IF h.after = 0 \/ ValueAt(d, h.after) = <<>> THEN NoMatch
     ELSE [matched |-> TRUE, name |-> h.name, inner |-> ValueAt(d, h.after)]

\* _OPEN.match(definition); inner is <<>> when the optional group is None
OPEN(d) ==
  LET h == HeadOf(d, "{")
  IN IF h.after = 0 THEN NoMatch
     ELSE [matched |-> TRUE, name |-> h.name, inner |-> ValueAt(d, h.after)]

\* _BEGIN_MULTILINE.match(line)
BEGIN_MULTILINE(line) ==
  LET h == HeadOf(line, "=")
      q == IF h.after = 0 THEN 0 ELSE SkipWs(line, h.after)
  IN IF h.after /= 0 /\ NonEscaped(line, q, {QUOTE})
     THEN [matched |-> TRUE, name |-> h.name,
           inner |-> SubSeq(line, q + 1, NonQuoteEnd(line, q + 1) - 1)]
     ELSE NoMatch

\* _END_MULTILINE.match(line)
END_MULTILINE(line) ==
  LET q == EndQuote(line, 1)
  IN IF q = 0 THEN NoMatch
     ELSE [matched |-> TRUE, name |-> <<>>, inner |-> SubSeq(line, 1, q - 1)]

\* _CLOSE.match(definition): \s*(?P<inner>.*\S)?\s*}\s*.  The greedy
\* optional group is tried first, its .* longest first, so the match ends
\* at the last active "}" that has text before it; only when there is none
\* is the group left out, and the "}" must then come first.
CLOSE(d) ==
  LET i0 == SkipWs(d, 1)
      LastText(p) == LET E == {e \in i0..(p - 1) : d[e] \notin Whitespace}
                     IN IF E = {} THEN 0
                        ELSE CHOOSE e \in E : \A f \in E : f <= e
      P == {p \in (i0 + 1)..Len(d) :
              /\ NonEscaped(d, p, {"}"})
              /\ LastText(p) /= 0
              /\ \A n \in i0..LastText(p) : d[n] /= NL}
  IN IF P /= {}
     THEN LET p == CHOOSE x \in P : \A y \in P : y <= x
          IN [matched |-> TRUE, name |-> <<>>, inner |-> SubSeq(d, i0, LastText(p))]
     ELSE IF NonEscaped(d, i0, {"}"})
          THEN [matched |-> TRUE, name |-> <<>>, inner |-> <<>>]
     ELSE NoMatch

\* --------------------------------------------------------------- _Parser

\* remove_escape resolving the first escape only (sub with count=1)
RECURSIVE EscapedSubOnce(_, _)
EscapedSubOnce(s, i) ==
  IF i > Len(s) THEN <<>>
  ELSE IF s[i] = BS /\ i + 1 <= Len(s) /\ s[i + 1] \in EscapableChars
       THEN <<s[i + 1]>> \o SubSeq(s, i + 2, Len(s))
  ELSE <<s[i]>> \o EscapedSubOnce(s, i + 1)

remove_escape_once(text) == EscapedSubOnce(text, 1)

\* _Parser.remove_escape
remove_escape(text) == EscapedSub(text, 1)

\* _Parser.tagname, for the parser's group and the matched tag
\* the tag name joined to the group path with the letters left as written
tagname_raw(grp, tag) == LStripSlash(grp \o <<"/">> \o tag)

tagname(grp, tag) == Upper(LStripSlash(grp \o <<"/">> \o tag))

\* a group-close that drops one segment whatever the open had pushed
PopGroupOne(grp, n) == RPartitionHead(grp)

\* a group-close that pops the depth and leaves the group as it is
PopGroupNone(grp, n) == grp

\* the loop of a group-close: self.group, *_ = self.group.rpartition("/"),
\* n times
RECURSIVE PopGroup(_, _)
PopGroup(grp, n) ==
  IF n = 0 THEN grp ELSE PopGroup(RPartitionHead(grp), n - 1)

\* The parser state a statement is run against, with what running it
\* yields: out, the pairs in the order they are yielded, and err, whether
\* an exception was raised (nothing after the raise is executed).
ParserState(grp, dep, multi, cont) ==
  [group |-> grp, depth |-> dep, multiline |-> multi, content |-> cont,
   out |-> <<>>, err |-> FALSE]

\* _Parser.parse_definition
RECURSIVE parse_definition(_, _)
parse_definition(st, definition) ==
  LET open == OPEN(definition)
      close == CLOSE(definition)
      assignment == ASSIGNMENT(definition)
  IN IF open.matched
     THEN LET st1 == [st EXCEPT !.group = st.group \o <<"/">> \o open.name,
                                !.depth = Append(st.depth, CountSlash(open.name) + 1)]
          IN IF open.inner /= <<>> THEN parse_definition(st1, open.inner) ELSE st1
     ELSE IF close.matched
     THEN LET st1 == IF close.inner /= <<>>
                     THEN parse_definition(st, close.inner) ELSE st
          IN IF st1.err THEN st1
             ELSE IF st1.depth = <<>>
             THEN [st1 EXCEPT !.err = TRUE]     \* list.pop() of an empty list
             ELSE [st1 EXCEPT
                     !.group = PopGroup(st1.group, st1.depth[Len(st1.depth)]),
                     !.depth = SubSeq(st1.depth, 1, Len(st1.depth) - 1)]
     ELSE IF assignment.matched
     THEN [st EXCEPT !.out = Append(st.out,
                <<tagname(st.group, assignment.name), remove_escape(assignment.inner)>>)]
     ELSE st

\* the loop of parse_line over the statements of a line; it ends at the
\* first statement that raises
RECURSIVE parse_definitions(_, _)
parse_definitions(st, definitions) ==
  IF definitions = <<>> \/ st.err THEN st
  ELSE parse_definitions(parse_definition(st, Head(definitions)), Tail(definitions))

\* the statements of a line that does not begin a quoted value
Statements(line) == InlineSplit(CommentSplit(EscapedNewlineSub(line, 1)))

\* a collector that strips the comment from a line before it keeps it
parse_multiline_stripped(st, line) ==
  LET end_multiline == END_MULTILINE(line)
  IN IF end_multiline.matched
     THEN [st EXCEPT
             !.out = Append(st.out,
                <<st.multiline,
                  remove_escape(Join(Append(st.content, end_multiline.inner), <<NL>>))>>),
             !.multiline = <<>>,
             !.content = <<>>]
     ELSE [st EXCEPT !.content = Append(st.content, CommentSplit(line))]

\* _Parser.parse_multiline
parse_multiline(st, line) ==
  LET end_multiline == END_MULTILINE(line)
  IN IF end_multiline.matched
     THEN [st EXCEPT
             !.out = Append(st.out,
                <<st.multiline,
                  remove_escape(Join(Append(st.content, end_multiline.inner), <<NL>>))>>),
             !.multiline = <<>>,
             !.content = <<>>]
     ELSE [st EXCEPT !.content = Append(st.content, line)]

\* _Parser.parse_line
parse_line(st, line) ==
  LET multiline == BEGIN_MULTILINE(line)
  IN IF multiline.matched
     THEN parse_multiline([st EXCEPT !.multiline = tagname(st.group, multiline.name)],
                          multiline.inner)
     ELSE parse_definitions(st, Statements(line))

\* one round of the loop of _generate_tags: "if parser.multiline" is the
\* truth value of a string, false when it is empty
generate_step(st, line) ==
  IF st.multiline /= <<>> THEN parse_multiline(st, line) ELSE parse_line(st, line)

\* ---------------------------------------------------------------- input

\* The texts the parser is run on are written with the lines of one of
\* three families; a text has at most MaxLines lines.
MaxLines == 4

\* the line  a = 1
LineAssign == <<"a", " ", "=", " ", "1">>

\* the line  /a = 1
LineSlashTag == <<"/", "a", " ", "=", " ", "1">>

\* the line  g {
LineOpen == <<"g", " ", "{">>

\* the line  a/b {
LineOpenTwo == <<"a", "/", "b", " ", "{">>

\* the line  a//b {
LineOpenThree == <<"a", "/", "/", "b", " ", "{">>

\* the line  }
LineClose == <<"}">>

\* the line  g { b = x }
LineInline == <<"g", " ", "{", " ", "b", " ", "=", " ", "x", " ", "}">>

\* the line  a/b { g { c = 1 }}
LineInlineNested == <<"a", "/", "b", " ", "{", " ", "g", " ", "{", " ", "c", " ", "=", " ", "1", " ", "}", "}">>

\* assignments and groups, opened and closed on one line or on several
GroupLines ==
  {LineAssign, LineSlashTag, LineOpen, LineOpenTwo, LineOpenThree, LineClose,
   LineInline, LineInlineNested}

\* the reserved characters a single backslash is written before
EscapedOnce == {"=", ";", "{", "}", "#", "!"}

\* the line  a = \cx\c  for a reserved character c: the escaped character
\* opens the value and ends it
EscapedLine(c) == <<"a", " ", "=", " ", BS, c, "x", BS, c>>

\* the line  a = x\\; # c  (two backslashes before the semicolon)
LineTwoBackslashes == <<"a", " ", "=", " ", "x", "\\", "\\", ";", " ", "#", " ", "c">>

\* assignments whose value holds backslashes
EscapeLines ==
  {EscapedLine(c) : c \in EscapedOnce} \cup {LineTwoBackslashes, LineOpen, LineClose}

\* the line  t = "x"
LineQuoted == <<"t", " ", "=", " ", "\"", "x", "\"">>

\* the line  b = "x
LineBeginQuote == <<"b", " ", "=", " ", "\"", "x">>

\* the line  x"
LineEndQuote == <<"x", "\"">>

\* the line  b = 1
LinePlain == <<"b", " ", "=", " ", "1">>

\* the line  a = 1; b = "x
LineQuoteAfterSep == <<"a", " ", "=", " ", "1", ";", " ", "b", " ", "=", " ", "\"", "x">>

\* the line  g { b = "x
LineQuoteInOpen == <<"g", " ", "{", " ", "b", " ", "=", " ", "\"", "x">>

\* quoted values
QuoteLines ==
  {LineQuoted, LineBeginQuote, LineEndQuote, LinePlain, LineQuoteAfterSep,
   LineQuoteInOpen, LineOpen, LineClose}

\* the line  # ! ; { }
LineVerbatim == <<"#", " ", "!", " ", ";", " ", "{", " ", "}">>

\* the line  / = "x
LineSlashQuote == <<"/", " ", "=", " ", "\"", "x">>

\* the line  b = 2; b = 1
LineTwoAssign == <<"b", " ", "=", " ", "2", ";", " ", "b", " ", "=", " ", "1">>

\* quoted values over several lines, and what stands around them
CaptureLines ==
  {LineBeginQuote, LineEndQuote, LinePlain, LineVerbatim, LineSlashQuote,
   LineTwoAssign, LineOpen, LineClose}

\* the line  a = 1 # ; b = 2
LineCommentSep == <<"a", " ", "=", " ", "1", " ", "#", " ", ";", " ", "b", " ", "=", " ", "2">>

\* the line  ! g { ; b = 2
LineCommentOpen == <<"!", " ", "g", " ", "{", " ", ";", " ", "b", " ", "=", " ", "2">>

\* the line  g { b = 1; c = 2 # }
LineOpenSep == <<"g", " ", "{", " ", "b", " ", "=", " ", "1", ";", " ", "c", " ", "=", " ", "2", " ", "#", " ", "}">>

\* the line  b = "x # c
LineQuoteComment == <<"b", " ", "=", " ", "\"", "x", " ", "#", " ", "c">>

\* the text of three physical lines  b = 1 / a = x \ /  b  : the second
\* ends in a backslash
ContinuedText == <<"b", " ", "=", " ", "1", "\n", "a", " ", "=", " ", "x", " ", "\\", "\n", " ", "b">>

\* the text of three physical lines  b = "x \ / y / x"
ContinuedQuoteText == <<"b", " ", "=", " ", "\"", "x", " ", "\\", "\n", "y", "\n", "x", "\"">>

\* the logical line  a = x \<newline> b  of ContinuedText
LineContinued == NewlinesSplit(ContinuedText)[2]

\* the logical line  b = "x \<newline>y  of ContinuedQuoteText
LineContinuedQuote == NewlinesSplit(ContinuedQuoteText)[1]

Range(seq) == {seq[i] : i \in 1..Len(seq)}

\* comments, separators and continued lines: the lines _NEWLINES.split
\* makes of the two texts, and three lines with comments
StatementLines ==
  Range(NewlinesSplit(ContinuedText)) \cup Range(NewlinesSplit(ContinuedQuoteText))
    \cup {LineCommentSep, LineCommentOpen, LineOpenSep, LineQuoteComment, LineClose}

Families == {GroupLines, EscapeLines, QuoteLines, CaptureLines, StatementLines}

\* -------------------------------------------------------- state machine

VARIABLES
  inputs,     \* the lines the text under parse is written with
  group,      \* _Parser.group
  depth,      \* _Parser.depth
  multiline,  \* _Parser.multiline
  content,    \* _Parser.content
  tags,       \* the dict that dict(_generate_tags(text)) is filling
  status,     \* "running", "returned" or "raised" (an exception left the call)
  log,        \* per line consumed: the line, the parser before it, the pairs it yielded
  sample,     \* a text the escape rules are applied to on their own
  resolved,   \* the results of remove_escape applied to sample again and again
  probe       \* a position of sample with what _non_escaped says of it

parser == <<inputs, group, depth, multiline, content, tags, status, log>>
escapes == <<sample, resolved, probe>>
vars == <<parser, escapes>>

NoProbe == [pos |-> 0, active |-> FALSE]

EmptyDict == [k \in {} |-> <<>>]

\* a mapping that keeps the first value given for a key
RECURSIVE DictUpdateFirst(_, _)
DictUpdateFirst(d, pairs) ==
  IF pairs = <<>> THEN d
  ELSE DictUpdateFirst([k \in DOMAIN d \cup {pairs[1][1]} |->
                          IF k \in DOMAIN d THEN d[k] ELSE pairs[1][2]],
                       Tail(pairs))

\* dict(...) taking the pairs of an iterable in order: a later pair replaces
\* an earlier one with the same key
RECURSIVE DictUpdate(_, _)
DictUpdate(d, pairs) ==
  IF pairs = <<>> THEN d
  ELSE DictUpdate([k \in DOMAIN d \cup {pairs[1][1]} |->
                     IF k = pairs[1][1] THEN pairs[1][2] ELSE d[k]],
                  Tail(pairs))

\* parser = _Parser()
Init ==
  /\ inputs \in Families
  /\ group = <<>>
  /\ depth = <<>>
  /\ multiline = <<>>
  /\ content = <<>>
  /\ tags = EmptyDict
  /\ status = "running"
  /\ log = <<>>
  /\ sample = <<>>
  /\ resolved = <<>>
  /\ probe = NoProbe

Current == ParserState(group, depth, multiline, content)

\* what one round of the loop of _generate_tags leaves behind
Consume(line, st) ==
  /\ group' = st.group
  /\ depth' = st.depth
  /\ multiline' = st.multiline
  /\ content' = st.content
  /\ tags' = DictUpdate(tags, st.out)
  /\ status' = IF st.err THEN "raised" ELSE "running"
  /\ log' = Append(log, [line |-> line, group |-> group, depth |-> depth,
                         multiline |-> multiline, content |-> content,
                         out |-> st.out])
  /\ UNCHANGED <<inputs, escapes>>

\* the else branch of the loop of _generate_tags
ParseLine(line) ==
  /\ status = "running"
  /\ Len(log) < MaxLines
  /\ multiline = <<>>
  /\ Consume(line, parse_line(Current, line))

\* the if branch of the loop of _generate_tags
ParseMultiline(line) ==
  /\ status = "running"
  /\ Len(log) < MaxLines
  /\ multiline /= <<>>
  /\ Consume(line, parse_multiline(Current, line))

\* an end of input that emits the capture still pending
ReturnFlush ==
  /\ status = "running"
  /\ Len(log) >= 1
  /\ status' = "returned"
  /\ tags' = IF multiline = <<>> THEN tags
             ELSE [k \in DOMAIN tags \cup {multiline} |->
                     IF k = multiline THEN Join(content, <<NL>>) ELSE tags[k]]
  /\ UNCHANGED <<inputs, group, depth, multiline, content, log, escapes>>

\* the lines are used up and parse_incar_to_dict returns the dict
Return ==
  /\ status = "running"
  /\ Len(log) >= 1
  /\ status' = "returned"
  /\ UNCHANGED <<inputs, group, depth, multiline, content, tags, log, escapes>>

Next ==
  \/ \E line \in inputs : ParseLine(line)
  \/ \E line \in inputs : ParseMultiline(line)
  \/ Return

Spec == Init /\ [][Next]_vars

\* ----------------------------------------- the escape rules on their own

\* the longest text the escape rules are applied to
MaxLen == 4

EscapeAlphabet == Reserved \cup {BS, "a"}

Samples == UNION {[1..n -> EscapeAlphabet] : n \in 0..MaxLen}

EscapeInit ==
  /\ sample \in Samples
  /\ resolved = <<>>
  /\ probe = NoProbe
  /\ inputs = {}
  /\ group = <<>>
  /\ depth = <<>>
  /\ multiline = <<>>
  /\ content = <<>>
  /\ tags = EmptyDict
  /\ status = "running"
  /\ log = <<>>

\* remove_escape applied to the sample, then to its own result
Resolve ==
  /\ probe = NoProbe
  /\ Len(resolved) < 2
  /\ resolved' = Append(resolved,
                        remove_escape(IF resolved = <<>> THEN sample
                                      ELSE resolved[Len(resolved)]))
  /\ UNCHANGED <<sample, probe, parser>>

\* _non_escaped asked about a reserved character of the sample
Classify(i) ==
  /\ probe = NoProbe
  /\ resolved = <<>>
  /\ sample[i] \in Reserved
  /\ probe' = [pos |-> i, active |-> NonEscaped(sample, i, {sample[i]})]
  /\ UNCHANGED <<sample, resolved, parser>>

EscapeNext ==
  \/ Resolve
  \/ \E i \in 1..Len(sample) : Classify(i)

EscapeSpec == EscapeInit /\ [][EscapeNext]_vars

\* ======================================================================
\* Properties
\* ======================================================================

\* the parser after the i-th line of the text
GroupAfter(i) == IF i < Len(log) THEN log[i + 1].group ELSE group
DepthAfter(i) == IF i < Len(log) THEN log[i + 1].depth ELSE depth
MultilineAfter(i) == IF i < Len(log) THEN log[i + 1].multiline ELSE multiline
ContentAfter(i) == IF i < Len(log) THEN log[i + 1].content ELSE content
RaisedAt(i) == i = Len(log) /\ status = "raised"

\* the i-th line went through parse_line, not into a pending capture
Parsed(i) == log[i].multiline = <<>>

\* C1: a group-close processed while no group is open is ignored: no
\* exception leaves the parser, the group path stays empty, and the lines
\* after it are parsed at top level.
C1_SpuriousCloseIgnored ==
  \A i \in 1..Len(log) :
    (Parsed(i) /\ log[i].line = LineClose /\ log[i].depth = <<>>)
      => /\ ~RaisedAt(i)
         /\ GroupAfter(i) = <<>>
         /\ DepthAfter(i) = <<>>

\* the number of backslashes right before position i of s
RECURSIVE BackslashRun(_, _)
BackslashRun(s, i) ==
  IF i > 1 /\ s[i - 1] = BS THEN 1 + BackslashRun(s, i - 1) ELSE 0

\* C2: a reserved delimiter preceded by a run of exactly k backslashes is
\* active when k is even and escaped when k is odd, for every k.
C2_ActiveIffEvenRun ==
  probe.pos /= 0 =>
    (probe.active <=> BackslashRun(sample, probe.pos) % 2 = 0)

\* C3: in a single-line assignment a reserved character with one backslash
\* before it is no delimiter: the statement yields exactly one pair, for its
\* own tag, and the value holds the bare character without the backslash.
C3_EscapedCharIsLiteral ==
  \A i \in 1..Len(log) : \A c \in EscapedOnce :
    (Parsed(i) /\ log[i].line = EscapedLine(c))
      => /\ ~RaisedAt(i)
         /\ log[i].out = << <<tagname(log[i].group, <<"a">>), <<c, "x", c>> >> >>
         /\ GroupAfter(i) = log[i].group
         /\ DepthAfter(i) = log[i].depth
         /\ MultilineAfter(i) = <<>>

\* C3, witnessed: lines with an escaped "}", ";" and "#" were parsed inside
\* an open group and the text was returned
C3_Witness ==
  /\ Len(log) = 4
  /\ log[1].line = LineOpen
  /\ log[2].line = EscapedLine("}")
  /\ log[3].line = EscapedLine(";")
  /\ log[4].line = EscapedLine("#")
  /\ log[4].out /= <<>>
  /\ status = "returned"

\* C4: the value of  a = x\; # c  (two backslashes before an active ";")
\* keeps both backslashes, and the comment is dropped.
C4_BothBackslashesKept ==
  \A i \in 1..Len(log) :
    (Parsed(i) /\ log[i].line = LineTwoBackslashes)
      => log[i].out = << <<tagname(log[i].group, <<"a">>), <<"x", BS, BS>> >> >>

\* C5 as stated: remove_escape is idempotent on every text.
C5_Idempotent ==
  Len(resolved) = 2 => resolved[2] = resolved[1]

NoAdjacentBackslashes(s) ==
  \A i \in 1..(Len(s) - 1) : ~(s[i] = BS /\ s[i + 1] = BS)

\* C5, amended: remove_escape applied to its own result changes nothing for
\* every text in which no backslash directly follows another backslash.
C5_IdempotentWithoutDoubleBackslash ==
  (Len(resolved) = 2 /\ NoAdjacentBackslashes(sample))
    => resolved[2] = resolved[1]

\* C5, witnessed: a text with two escapes and no doubled backslash was
\* resolved twice, the first time changing it
C5_Witness ==
  /\ sample = <<BS, "=", BS, ";">>
  /\ Len(resolved) = 2
  /\ resolved[1] = <<"=", ";">>

\* ----------------------------------------------- the grammar's reading

\* What the grammar of the specification says about each line of the
\* input families, independently of the patterns: the name of the group a
\* line opens and leaves open, and for each assignment of a line the groups
\* opened inline before it and its tag name.
OpenedBy(line) ==
  CASE line = LineOpen -> << <<"g">> >>
    [] line = LineOpenTwo -> << <<"a", "/", "b">> >>
    [] line = LineOpenThree -> << <<"a", "/", "/", "b">> >>
    [] line = LineQuoteInOpen -> << <<"g">> >>
    [] line = LineOpenSep -> << <<"g">> >>
    [] OTHER -> <<>>

AssignedBy(line) ==
  CASE line = LineAssign -> << [inline |-> <<>>, tag |-> <<"a">>] >>
    [] line = LineSlashTag -> << [inline |-> <<>>, tag |-> <<"/", "a">>] >>
    [] line = LineInline -> << [inline |-> << <<"g">> >>, tag |-> <<"b">>] >>
    [] line = LineInlineNested ->
         << [inline |-> << <<"a", "/", "b">>, <<"g">> >>, tag |-> <<"c">>] >>
    [] line = LinePlain -> << [inline |-> <<>>, tag |-> <<"b">>] >>
    [] line = LineTwoBackslashes -> << [inline |-> <<>>, tag |-> <<"a">>] >>
    [] line \in {EscapedLine(c) : c \in EscapedOnce} ->
         << [inline |-> <<>>, tag |-> <<"a">>] >>
    [] OTHER -> <<>>

\* the names of the groups open after the first n lines, outermost first
RECURSIVE OpenNames(_)
OpenNames(n) ==
  IF n = 0 THEN <<>>
  ELSE LET before == OpenNames(n - 1)
       IN IF ~Parsed(n) THEN before
          ELSE IF log[n].line = LineClose
          THEN SubSeq(before, 1, Len(before) - 1)
          ELSE before \o OpenedBy(log[n].line)

\* the fully-qualified tag of a tag name under the given open groups
Qualified(names, tag) == Upper(Join(Append(names, tag), <<"/">>))

\* C6: the tag of every emitted pair is the uppercase "/"-joined
\* concatenation of the names of the open groups, outermost first, and the
\* statement's own tag name; at top level it is the uppercased tag name as
\* written.
C6_TagIsQualifiedName ==
  \A i \in 1..Len(log) :
    (Parsed(i) /\ ~RaisedAt(i) /\ AssignedBy(log[i].line) /= <<>>)
      => /\ Len(log[i].out) = Len(AssignedBy(log[i].line))
         /\ \A n \in 1..Len(log[i].out) :
              log[i].out[n][1] =
                Qualified(OpenNames(i - 1) \o AssignedBy(log[i].line)[n].inline,
                          AssignedBy(log[i].line)[n].tag)

\* the groups opened and not closed by the lines after line i up to line m
RECURSIVE Nesting(_, _)
Nesting(i, m) ==
  IF m <= i THEN 0
  ELSE Nesting(i, m - 1)
       + (IF ~Parsed(m) THEN 0
          ELSE IF log[m].line = LineClose THEN -1
          ELSE Len(OpenedBy(log[m].line)))

\* line j closes the group that line i opened
Matching(i, j) ==
  /\ i < j
  /\ Parsed(i) /\ OpenedBy(log[i].line) /= <<>>
  /\ Parsed(j) /\ log[j].line = LineClose
  /\ Nesting(i, j - 1) = 0
  /\ \A m \in (i + 1)..(j - 1) : Nesting(i, m) >= 0

\* C7: a group-open whose name holds k "/" pushes k+1 on the depth stack,
\* and the matching group-close takes exactly those segments away: after
\* open ... close the group path and the depth stack are what they were
\* before the open, also when the open and its close stand on one line.
C7_CloseUndoesOpen ==
  /\ \A i \in 1..Len(log) :
       (Parsed(i) /\ log[i].line \in {LineOpen, LineOpenTwo, LineOpenThree})
         => /\ DepthAfter(i) =
                 Append(log[i].depth, CountSlash(OpenedBy(log[i].line)[1]) + 1)
            /\ GroupAfter(i) = log[i].group \o <<"/">> \o OpenedBy(log[i].line)[1]
  /\ \A i \in 1..Len(log) : \A j \in 1..Len(log) :
       Matching(i, j)
         => /\ ~RaisedAt(j)
            /\ GroupAfter(j) = log[i].group
            /\ DepthAfter(j) = log[i].depth
  /\ \A i \in 1..Len(log) :
       (Parsed(i) /\ log[i].line \in {LineInline, LineInlineNested})
         => /\ ~RaisedAt(i)
            /\ GroupAfter(i) = log[i].group
            /\ DepthAfter(i) = log[i].depth

\* C7, witnessed: a two-segment group holding a one-segment group was
\* opened inside another group and closed again
C7_Witness ==
  /\ Len(log) = 4
  /\ log[1].line = LineOpen
  /\ log[2].line = LineOpenTwo
  /\ log[3].line = LineInline
  /\ log[4].line = LineClose
  /\ Matching(2, 4)
  /\ group = <<"/", "g">>
  /\ depth = <<1>>

\* C8: after well-formed statements, with every multi-segment group closed
\* again, the depth stack has as many entries as the group path has
\* segments.
C8_DepthMatchesPath ==
  (/\ status /= "raised"
   /\ \A n \in 1..Len(OpenNames(Len(log))) : CountSlash(OpenNames(Len(log))[n]) = 0)
    => Len(depth) = CountSlash(group)

\* C8, witnessed: a two-segment group was opened and closed, and two
\* one-segment groups are open
C8_Witness ==
  /\ Len(log) = 4
  /\ log[1].line = LineOpenTwo
  /\ log[2].line = LineClose
  /\ log[3].line = LineOpen
  /\ log[4].line = LineOpen
  /\ depth = <<1, 1>>
  /\ group = <<"/", "g", "/", "g">>

\* C9: a line holding the opening and the closing quote yields its pair on
\* that line, leaves no capture pending, and the next line is parsed as
\* ordinary statements.
C9_QuotedOnOneLine ==
  \A i \in 1..Len(log) :
    (Parsed(i) /\ log[i].line = LineQuoted)
      => /\ log[i].out = << <<Qualified(OpenNames(i - 1), <<"t">>), <<"x">> >> >>
         /\ MultilineAfter(i) = <<>>
         /\ ContentAfter(i) = <<>>

\* C10: a statement that begins a quoted value enters the capture wherever
\* it stands on its line: first, after an active ";", or after an inline
\* group-open; the pending tag is the uppercased group path and tag name.
C10_CaptureEnteredAnywhere ==
  \A i \in 1..Len(log) :
    (Parsed(i) /\ log[i].line \in {LineBeginQuote, LineQuoteAfterSep, LineQuoteInOpen})
      => MultilineAfter(i) =
           Qualified(OpenNames(i - 1) \o OpenedBy(log[i].line), <<"b">>)

\* the text of a line before its first quote
TextBeforeQuote(line) ==
  SubSeq(line, 1, (CHOOSE i \in 1..Len(line) :
                     line[i] = QUOTE /\ \A j \in 1..(i - 1) : line[j] /= QUOTE) - 1)

\* C11: a line met while a capture is pending is not stripped or split. A
\* line without a quote is appended whole to the fragments, with group,
\* depth and pending tag unchanged and no pair emitted; a line with the
\* closing quote emits exactly one pair, the pending tag with the fragments
\* and the text before the quote joined by newlines, and ends the capture.
C11_CaptureKeepsLinesVerbatim ==
  \A i \in 1..Len(log) :
    ~Parsed(i)
      => /\ GroupAfter(i) = log[i].group
         /\ DepthAfter(i) = log[i].depth
         /\ ~RaisedAt(i)
         /\ IF QUOTE \in Range(log[i].line)
            THEN /\ log[i].out =
                      << <<log[i].multiline,
                           Join(Append(log[i].content, TextBeforeQuote(log[i].line)),
                                <<NL>>)>> >>
                 /\ MultilineAfter(i) = <<>>
                 /\ ContentAfter(i) = <<>>
            ELSE /\ log[i].out = <<>>
                 /\ MultilineAfter(i) = log[i].multiline
                 /\ ContentAfter(i) = Append(log[i].content, log[i].line)

\* b = "x, then # ! ; { }, then x" : the pair (B, x / # ! ; { } / x)
C11_Witness ==
  /\ Len(log) = 3
  /\ log[1].line = LineBeginQuote
  /\ log[2].line = LineVerbatim
  /\ log[3].line = LineEndQuote
  /\ log[3].content = <<<<"x">>, LineVerbatim>>
  /\ log[3].out = << << <<"B">>, <<"x", NL>> \o LineVerbatim \o <<NL, "x">> >> >>
  /\ multiline = <<>>

\* a backslash directly before a newline
HasContinuation(s) == \E i \in 1..(Len(s) - 1) : s[i] = BS /\ s[i + 1] = NL

\* C12: continuations are joined before the text is split into lines: the
\* continued assignment a = x \<newline> b yields the value x b, and no
\* line handed to the collector, no collected fragment and no value holds
\* a backslash followed by a newline.
C12_ContinuationJoinedBeforeSplit ==
  /\ \A i \in 1..Len(log) :
       /\ (Parsed(i) /\ log[i].line = LineContinued)
            => log[i].out = << <<Qualified(OpenNames(i - 1), <<"a">>), <<"x", " ", "b">> >> >>
       /\ ~Parsed(i) => ~HasContinuation(log[i].line)
  /\ \A f \in Range(content) : ~HasContinuation(f)
  /\ \A k \in DOMAIN tags : ~HasContinuation(tags[k])

\* C13: outside a capture the comment is dropped before the line is split
\* on ";" and the statements act from left to right on the shared group:
\* nothing after the comment marker yields a pair, changes the group or is
\* kept as text, and a group opened on the line prefixes the statements
\* after it.
C13_CommentDroppedThenSplit ==
  \A i \in 1..Len(log) :
    Parsed(i) =>
      /\ log[i].line = LineCommentSep
           => /\ log[i].out = << <<Qualified(OpenNames(i - 1), <<"a">>), <<"1">> >> >>
              /\ GroupAfter(i) = log[i].group
              /\ DepthAfter(i) = log[i].depth
      /\ log[i].line = LineCommentOpen
           => /\ log[i].out = <<>>
              /\ GroupAfter(i) = log[i].group
              /\ DepthAfter(i) = log[i].depth
      /\ log[i].line = LineOpenSep
           => /\ log[i].out =
                   << <<Qualified(OpenNames(i), <<"b">>), <<"1">> >>,
                      <<Qualified(OpenNames(i), <<"c">>), <<"2">> >> >>
              /\ GroupAfter(i) = log[i].group \o <<"/", "g">>
              /\ DepthAfter(i) = Append(log[i].depth, 1)
      /\ log[i].line = LineQuoteComment
           => /\ log[i].out = <<>>
              /\ MultilineAfter(i) = Qualified(OpenNames(i - 1), <<"b">>)
              /\ ContentAfter(i) = << <<"x", " ">> >>

\* C14: the end of the input while a quoted value or a group is open is no
\* error: the mapping is returned as it stood, with every pair emitted so
\* far and nothing from the pending capture.
C14_EndOfInputKeepsPairs ==
  [][(status = "running" /\ log' = log /\ status' /= "running")
       => /\ status' = "returned"
          /\ tags' = tags
          /\ \A i \in 1..Len(log) : \A j \in 1..Len(log[i].out) :
               log[i].out[j][1] \in DOMAIN tags']_vars

\* b = 1, g {, b = "x and the end of the input: only B = 1 is returned
C14_Witness ==
  /\ status = "returned"
  /\ Len(log) = 3
  /\ log[1].line = LinePlain
  /\ log[2].line = LineOpen
  /\ log[3].line = LineBeginQuote
  /\ multiline = <<"G", "/", "B">>
  /\ depth = <<1>>
  /\ DOMAIN tags = {<<"B">>}
  /\ tags[<<"B">>] = <<"1">>

\* the letters that str.upper changes
LowerChars == {c \in WordChars : UpperChar(c) /= c}

\* C15: every key of the returned mapping is made of word characters and
\* "/" only, none of them a lower-case letter or a reserved character.
C15_KeysUpperWithoutReserved ==
  status = "returned"
    => \A k \in DOMAIN tags : \A i \in 1..Len(k) :
         /\ k[i] \in WordChars \cup {"/"}
         /\ k[i] \notin LowerChars
         /\ k[i] \notin Reserved \cup {QUOTE}

\* g { b = x } returns the key G/B
C15_Witness ==
  /\ status = "returned"
  /\ \E i \in 1..Len(log) : log[i].line = LineInline
  /\ <<"G", "/", "B">> \in DOMAIN tags

\* the pairs emitted by the first n lines, in input order
RECURSIVE EmittedUpTo(_)
EmittedUpTo(n) == IF n = 0 THEN <<>> ELSE EmittedUpTo(n - 1) \o log[n].out

Emitted == EmittedUpTo(Len(log))

\* the value of the last emitted pair with key k
LastValue(k) ==
  LET e == Emitted
      P == {i \in 1..Len(e) : e[i][1] = k}
  IN e[CHOOSE i \in P : \A j \in P : j <= i][2]

\* C16: the returned mapping has exactly the emitted keys, each once, with
\* the value emitted last for it in input order.
C16_LastWriteWins ==
  status = "returned"
    => /\ DOMAIN tags = {Emitted[i][1] : i \in 1..Len(Emitted)}
       /\ \A k \in DOMAIN tags : tags[k] = LastValue(k)

\* b = 2; b = 1, then b = "x and x": B is emitted three times, the capture
\* last
C16_Witness ==
  /\ status = "returned"
  /\ Len(log) = 3
  /\ log[1].line = LineTwoAssign
  /\ log[2].line = LineBeginQuote
  /\ log[3].line = LineEndQuote
  /\ Len(Emitted) = 3
  /\ DOMAIN tags = {<<"B">>}
  /\ tags[<<"B">>] = <<"x", NL, "x">>

\* C17: whenever no capture is pending the list of fragments is empty,
\* after every line and for every tag name.
C17_NoFragmentsWithoutCapture ==
  multiline = <<>> => content = <<>>

====
